---- MODULE Spec2Model ----
(***************************************************************************)
(* Snapshot-tree orchestration of ast (src/astpk.py, entered through the   *)
(* router of src/main-cli.py).                                             *)
(*                                                                         *)
(* The volume store (btrfs) is an external collaborator: its content is    *)
(* state the commands read and write.  Every `ast <command>` invocation is *)
(* one operating-system process; NumProcs of them run concurrently.        *)
(***************************************************************************)
EXTENDS Integers, Sequences, FiniteSets, TLC

\* ------------------------------------------------------------------ bounds
NumProcs == 2      \* concurrent `ast` processes
MaxId    == 3      \* largest snapshot ID present in the initial store

Procs == 1..NumProcs
Ids   == 0..MaxId

\* The four namespaces of a bundle (astpk.py 22-26, 78-91).
Kinds == <<"snapshot", "var", "etc", "boot">>
KindSet == {Kinds[i] : i \in 1..Len(Kinds)}

VARIABLES
    \* --- volume store
    members,       \* [KindSet -> SUBSET Nat]: IDs whose "<kind>-<id>" subvolume exists
    uuid,          \* uuid of rootfs subvolume snapshot-<id> (function on members["snapshot"])
    parent_uuid,   \* parent_uuid of snapshot-<id>: uuid of its clone source, NoUuid if none
    deployed,      \* ID of the default subvolume (btrfs subvolume get-default)
    malformed,     \* parent_uuids of the subvolumes whose name holds no ID
    \* --- /run/ast.lock
    lockHolder,    \* set of processes holding flock(LOCK_EX) on LOCK_FILE (empty or one)
    \* --- one `ast` process each
    pc,            \* position of the process in its command
    cmd,           \* the command it runs (router key of main-cli.py)
    arg,           \* its <id> argument
    dst,           \* clone: dst = utils.next_snapshot_id()
    new_id,        \* branch: new_id = utils.next_snapshot_id()
    exitCode,      \* exit status of the process, -1 while it runs
    \* --- tree-run
    fail_fast,     \* "--fail-fast" in args
    ids,           \* ids = actions._walk_tree(root_id)
    idx,           \* position of the for loop in ids
    invoked,       \* IDs on which the command has been invoked, in order
    failedIds,     \* IDs on which the invocation failed
    \* --- chroot
    opened,        \* the session's mount commands (221-226) have all succeeded
    raised,        \* the exception in flight while the finally block (230-237) runs
    mstep,         \* index of the next mount / umount command of the session
    mnt,           \* mount points of the session currently mounted
    umounts,       \* umount commands issued by the session, in order
    \* --- actions._clone_recursive
    frames,        \* call stack: one record per active _clone_recursive call
    \* --- utils.run
    issued         \* external commands the process has run on the store, in order

storeVars == <<members, uuid, parent_uuid, deployed, malformed>>
runVars   == <<fail_fast, ids, idx, invoked, failedIds>>
chrVars   == <<opened, raised, mstep, mnt, umounts>>
vars == <<members, uuid, parent_uuid, deployed, malformed, lockHolder,
          pc, cmd, arg, dst, new_id, exitCode,
          fail_fast, ids, idx, invoked, failedIds,
          opened, raised, mstep, mnt, umounts, frames, issued>>

NoUuid == -1       \* parent_uuid of a subvolume that is not a snapshot of another
NoId   == -1       \* "no ID yet" in dst / new_id / arg

Max(S) == CHOOSE x \in S : \A y \in S : y <= x
Range(f) == {f[i] : i \in DOMAIN f}

\* The rootfs namespace; a process that has ended command c.
Subvols == members["snapshot"]
Done(p, c) == pc[p] = "done" /\ cmd[p] = c

\* ------------------------------------------------------------ volume store
\* A bundle is complete when all four members exist.
BundleComplete(m, id) == \A k \in KindSet : id \in m[k]

\* get_children that matches parent_uuid against the ID, not the uuid.
get_children_by_id(snap_id) ==
    {c \in members["snapshot"] : parent_uuid[c] = snap_id}

\* fs.subvolumes() (113): what get_children enumerates.  name is the ID that
\* int(sv.path.name.split("-")[1]) (116) yields, NoId when that raises.
subvolumes ==
    {[name |-> i, parent_uuid |-> parent_uuid[i]] : i \in members["snapshot"]}
        \cup {[name |-> NoId, parent_uuid |-> u] : u \in malformed}

\* utils.get_children 108-121: IDs of the subvolumes whose parent_uuid is the
\* uuid of snapshot-<snap_id>, in the store's enumeration order (ascending
\* ID); a name that does not parse is passed over (118-119).
get_children_set(snap_id) ==
    {sv.name : sv \in {x \in subvolumes :
                          x.parent_uuid = uuid[snap_id] /\ x.name # NoId}}

RECURSIVE SortedSeq(_)
SortedSeq(S) ==
    IF S = {} THEN <<>>
    ELSE LET m == CHOOSE x \in S : \A y \in S : x <= y
         IN <<m>> \o SortedSeq(S \ {m})

get_children(snap_id) == SortedSeq(get_children_set(snap_id))

\* utils.next_snapshot_id, lines 105-106: max over the rootfs namespace, plus one.
next_snapshot_id(rootfsIds) ==
    IF rootfsIds = {} THEN 0 ELSE Max(rootfsIds) + 1

\* ------------------------------------------------------------------- Init
\* Stores the commands may find: bundle 0 from the installer, plus complete
\* bundles left there by earlier work on the store, each a snapshot of a
\* bundle with a smaller ID or of none.  uuid of snapshot-<id> is id + 1.
IdSets == {{}} \cup {S \in SUBSET Ids : 0 \in S}

Parents(S) ==
    {f \in [S -> (S \cup {NoId})] : \A i \in S : f[i] < i}

InitLineage(S, par) ==
    /\ uuid = [i \in S |-> i + 1]
    /\ parent_uuid = [i \in S |-> IF par[i] = NoId THEN NoUuid ELSE par[i] + 1]
    /\ deployed \in (IF S = {} THEN {NoId} ELSE S)

InitStore ==
    \E S \in IdSets :
      \E par \in Parents(S) :
        /\ members = [k \in KindSet |-> S]
        /\ InitLineage(S, par)
        /\ malformed = {}

InitProcs ==
    /\ lockHolder = {}
    /\ pc = [p \in Procs |-> "idle"]
    /\ cmd = [p \in Procs |-> "none"]
    /\ arg = [p \in Procs |-> NoId]
    /\ dst = [p \in Procs |-> NoId]
    /\ new_id = [p \in Procs |-> NoId]
    /\ exitCode = [p \in Procs |-> -1]
    /\ fail_fast = [p \in Procs |-> FALSE]
    /\ ids = [p \in Procs |-> <<>>]
    /\ idx = [p \in Procs |-> 0]
    /\ invoked = [p \in Procs |-> <<>>]
    /\ failedIds = [p \in Procs |-> {}]
    /\ opened = [p \in Procs |-> FALSE]
    /\ raised = [p \in Procs |-> "none"]
    /\ mstep = [p \in Procs |-> 0]
    /\ mnt = [p \in Procs |-> {}]
    /\ umounts = [p \in Procs |-> <<>>]
    /\ frames = [p \in Procs |-> <<>>]
    /\ issued = [p \in Procs |-> <<>>]

Init == InitStore /\ InitProcs

\* The same stores, where one subvolume more may exist whose name holds no
\* ID (a snapshot taken by hand, say "snapshot-old"), itself a snapshot of one
\* of the bundles.
InitStoreMalformed ==
    \E S \in IdSets :
      \E par \in Parents(S) :
        /\ members = [k \in KindSet |-> S]
        /\ InitLineage(S, par)
        /\ malformed \in {{}} \cup {{i + 1} : i \in S}

\* The same stores, where var, etc or boot members of the ID after the
\* highest may exist without a rootfs member: what is left of a bundle whose
\* rootfs member was deleted and whose other members were not.
InitStoreStray ==
    \E S \in IdSets :
      \E par \in Parents(S) :
        \E stray \in SUBSET (KindSet \ {"snapshot"}) :
          /\ members = [k \in KindSet |->
                           IF k \in stray THEN S \cup {next_snapshot_id(S)} ELSE S]
          /\ InitLineage(S, par)
          /\ malformed = {}

\* ------------------------------------------------------------ main-cli.py
\* router (main-cli.py 26-47): the commands that mutate the tree.  The
\* argument lists are well formed (one integer <id> where one is required).
MutatorCmds == {"clone", "branch", "clone-tree", "deploy", "base-update", "gc"}
TakesId(c) == c \in {"clone", "branch", "clone-tree", "deploy", "tree-run", "chroot"}

\* An uncaught Exception reaches main-cli.py 56-57: utils.die("Fatal: ...")
\* -> sys.exit(1).  utils.die itself (astpk.py 40-43) is sys.exit(code).
die(p, code) ==
    /\ pc' = [pc EXCEPT ![p] = "done"]
    /\ exitCode' = [exitCode EXCEPT ![p] = code]

finish(p) ==
    /\ pc' = [pc EXCEPT ![p] = "done"]
    /\ exitCode' = [exitCode EXCEPT ![p] = 0]

\* ------------------------------------------------------------------ lock
\* lock() as contextlib.contextmanager would make it.
lock_as_context_manager == TRUE

\* lock() (astpk.py 374-380) is a generator function that is not wrapped by
\* contextlib.contextmanager.  Calling it returns a generator object and runs
\* none of its body: LOCK_FILE is not opened, flock is not called.  `with
\* lock():` then looks up __enter__ on the generator object, finds none and
\* raises TypeError before the block is entered.
lock_enters == FALSE

\* ------------------------------------------------------- router: mutators
\* main-cli.py 53: router[cmd]() for one of the mutating commands, up to the
\* first statement that touches shared state.
\*   clone  (150-155): dst = utils.next_snapshot_id() comes first;
\*   branch (184-188): new_id = utils.next_snapshot_id() comes first;
\*   clone-tree, deploy, base-update, gc: `with lock():` comes first.
start_mutator(p) ==
    /\ pc[p] = "idle"
    /\ \E c \in MutatorCmds :
       \E a \in (IF TakesId(c) THEN Ids ELSE {NoId}) :
          /\ cmd' = [cmd EXCEPT ![p] = c]
          /\ arg' = [arg EXCEPT ![p] = a]
          /\ pc' = [pc EXCEPT ![p] =
                        CASE c = "clone"  -> "clone_nsi_open"
                          [] c = "branch" -> "branch_nsi_open"
                          [] OTHER        -> "with_lock"]
    /\ UNCHANGED <<storeVars, lockHolder, dst, new_id, exitCode, runVars, chrVars, frames, issued>>

\* utils.next_snapshot_id, lines 103-104: open LOCK_FILE, flock(LOCK_EX).
\* flock blocks until no other open file description holds the lock.
next_snapshot_id_flock(p) ==
    /\ pc[p] \in {"clone_nsi_open", "branch_nsi_open", "cr_nsi_open"}
    /\ lockHolder = {}
    /\ lockHolder' = {p}
    /\ pc' = [pc EXCEPT ![p] =
                  CASE pc[p] = "clone_nsi_open"  -> "clone_nsi_locked"
                    [] pc[p] = "branch_nsi_open" -> "branch_nsi_locked"
                    [] pc[p] = "cr_nsi_open"     -> "cr_nsi_locked"]
    /\ UNCHANGED <<storeVars, cmd, arg, dst, new_id, exitCode, runVars, chrVars, frames, issued>>

\* utils.next_snapshot_id, lines 105-106: enumerate snapshot-*, return
\* max + 1; leaving the `with open(...)` block closes fd, which drops the
\* flock.  The caller stores the value: dst (155), new_id of branch (188) or
\* new_id of the running _clone_recursive call (174); branch then calls
\* actions.clone([parent]) (189), which allocates again (155).
next_snapshot_id_return(p) ==
    /\ pc[p] \in {"clone_nsi_locked", "branch_nsi_locked", "cr_nsi_locked"}
    /\ lockHolder' = lockHolder \ {p}
    /\ LET value == next_snapshot_id(members["snapshot"])
       IN CASE pc[p] = "clone_nsi_locked" ->
                 /\ dst' = [dst EXCEPT ![p] = value]
                 /\ pc' = [pc EXCEPT ![p] = "with_lock"]
                 /\ UNCHANGED <<new_id, frames>>
            [] pc[p] = "branch_nsi_locked" ->
                 /\ new_id' = [new_id EXCEPT ![p] = value]
                 /\ pc' = [pc EXCEPT ![p] = "clone_nsi_open"]
                 /\ UNCHANGED <<dst, frames>>
            [] pc[p] = "cr_nsi_locked" ->
                 /\ frames' = [frames EXCEPT ![p][Len(frames[p])].new_id = value]
                 /\ pc' = [pc EXCEPT ![p] = "cr_snapshot"]
                 /\ UNCHANGED <<dst, new_id>>
    /\ UNCHANGED <<storeVars, cmd, arg, exitCode, runVars, chrVars, issued>>

\* ------------------------------------------------- bodies of the with-blocks
\* A uuid no subvolume of the store has or names as its parent.
FreshUuid ==
    LET used == {uuid[i] : i \in DOMAIN uuid}
                \cup {parent_uuid[i] : i \in DOMAIN parent_uuid} \cup {0}
    IN Max(used) + 1

KindIndex(k) == CHOOSE i \in 1..Len(Kinds) : Kinds[i] = k

\* btrfs_snapshot that does not look at its destination first.
can_snapshot_unchecked(m, k, src, d) == src \in m[k]

\* btrfs_snapshot (368-372) can create "<kind>-<d>" from "<kind>-<src>": the
\* destination must not exist (369-370) and the source must (372, or the
\* btrfs tool fails).
can_snapshot(m, k, src, d) == d \notin m[k] /\ src \in m[k]

\* The members clone's block (157-160) may leave created: the four
\* btrfs_snapshot calls run in the order of Kinds, and the first one that dies
\* (destination exists, tool failure) ends the process.  n members created.
clone_outcomes(m, src, d) ==
    {n \in 0..Len(Kinds) : \A j \in 1..n : can_snapshot(m, Kinds[j], src, d)}

\* A bundle clone that leaves members behind only if all four were cloned.
snapshot_members_or_none(src, d, n) ==
    /\ members' = [k \in KindSet |->
                     IF n = Len(Kinds) THEN members[k] \cup {d} ELSE members[k]]
    /\ IF n = Len(Kinds)
       THEN /\ uuid' = [i \in DOMAIN uuid \cup {d} |->
                          IF i = d THEN FreshUuid ELSE uuid[i]]
            /\ parent_uuid' = [i \in DOMAIN parent_uuid \cup {d} |->
                          IF i = d THEN uuid[src] ELSE parent_uuid[i]]
       ELSE UNCHANGED <<uuid, parent_uuid>>

\* The store after the first n members of bundle d were cloned from src.
snapshot_members(src, d, n) ==
    /\ members' = [k \in KindSet |->
                     IF KindIndex(k) <= n THEN members[k] \cup {d} ELSE members[k]]
    /\ IF n >= 1
       THEN /\ uuid' = [i \in DOMAIN uuid \cup {d} |->
                          IF i = d THEN FreshUuid ELSE uuid[i]]
            /\ parent_uuid' = [i \in DOMAIN parent_uuid \cup {d} |->
                          IF i = d THEN uuid[src] ELSE parent_uuid[i]]
       ELSE UNCHANGED <<uuid, parent_uuid>>

\* utils.run(cmd) (49-71) on member "<kind>-<id>" ("none", NoId for a command
\* that names no member): the command was started and succeeded (ok) or failed.
run(c, k, id, ok) == [cmd |-> c, kind |-> k, id |-> id, ok |-> ok]

\* The commands the btrfs_snapshot calls of one bundle run when n members get
\* created: one successful `btrfs subvolume snapshot` (372) per member, and,
\* if a call is left to die, its failing command, unless that call dies at
\* 369-370, where the destination exists and no command is run.
btrfs_snapshot_runs(m, d, n) ==
    [j \in 1..n |-> run("snapshot", Kinds[j], d, TRUE)]
        \o (IF n < Len(Kinds) /\ d \notin m[Kinds[n + 1]]
            THEN <<run("snapshot", Kinds[n + 1], d, FALSE)>>
            ELSE <<>>)

\* actions.clone 157-161, the block under the lock.
clone_block(p) ==
    \E n \in clone_outcomes(members, arg[p], dst[p]) :
        /\ snapshot_members(arg[p], dst[p], n)
        /\ issued' = [issued EXCEPT ![p] = @ \o btrfs_snapshot_runs(members, dst[p], n)]
        /\ IF n = Len(Kinds) THEN finish(p) ELSE die(p, 1)
        /\ UNCHANGED <<deployed, malformed, lockHolder>>

\* actions.clone_tree 169: _clone_recursive starts with
\* utils.next_snapshot_id() (174), which opens LOCK_FILE again and calls
\* flock(LOCK_EX) on the new file description while the one opened by lock()
\* holds the lock: the call never returns.
clone_tree_block(p) ==
    /\ pc' = [pc EXCEPT ![p] = "nsi_blocked"]
    /\ lockHolder' = {p}
    /\ UNCHANGED <<storeVars, exitCode, issued>>

\* actions.deploy 204-205: set-default, then grub-mkconfig; utils.run dies on
\* the first command that fails.
deploy_block(p) ==
    \E setOk \in {arg[p] \in members["snapshot"], FALSE}, grubOk \in BOOLEAN :
        /\ deployed' = IF setOk THEN arg[p] ELSE deployed
        /\ issued' = [issued EXCEPT ![p] =
                          @ \o <<run("set-default", "snapshot", arg[p], setOk)>>
                            \o (IF setOk
                                THEN <<run("grub-mkconfig", "none", NoId, grubOk)>>
                                ELSE <<>>)]
        /\ IF setOk /\ grubOk THEN finish(p) ELSE die(p, 1)
        /\ UNCHANGED <<members, uuid, parent_uuid, malformed, lockHolder>>

\* actions.base_update 323-327: pacman -Syu; delete snapshot-0 if it exists;
\* snapshot "/" (the booted subvolume) as the new snapshot-0.  stage is the
\* number of commands that succeeded before utils.run died (3: all).
base_update_block(p) ==
    \E stage \in 0..3 :
        LET hadBase == 0 \in members["snapshot"]
            gone    == stage >= 2 /\ hadBase
            made    == stage = 3
            rootfs  == IF made THEN members["snapshot"] \cup {0}
                       ELSE IF gone THEN members["snapshot"] \ {0}
                       ELSE members["snapshot"]
        IN /\ members' = [members EXCEPT !["snapshot"] = rootfs]
           /\ uuid' = [i \in rootfs |-> IF i = 0 /\ made THEN FreshUuid ELSE uuid[i]]
           /\ parent_uuid' = [i \in rootfs |->
                                IF i = 0 /\ made
                                THEN (IF deployed \in DOMAIN uuid
                                      THEN uuid[deployed] ELSE NoUuid)
                                ELSE parent_uuid[i]]
           /\ issued' = [issued EXCEPT ![p] =
                  @ \o <<run("pacman", "none", NoId, stage >= 1)>>
                    \o (IF stage >= 1 /\ hadBase
                        THEN <<run("delete", "snapshot", 0, stage >= 2)>> ELSE <<>>)
                    \o (IF stage >= 2 \/ (stage >= 1 /\ ~hadBase)
                        THEN <<run("snapshot", "snapshot", 0, made)>> ELSE <<>>)]
           /\ IF made THEN finish(p) ELSE die(p, 1)
           /\ UNCHANGED <<deployed, malformed, lockHolder>>

\* actions.gc 345: the retention window around the deployed ID.
keep(d) == (d - 2)..(d + 2) \cup {d}

\* actions.gc 344, 346-347: the IDs gc deletes: every ID of the rootfs
\* namespace except 0 that is outside keep.
gc_victims(rootfsIds, d) == {sid \in rootfsIds \ {0} : sid \notin keep(d)}

\* actions.gc 342-352.  get-default must name a snapshot (343: int(...)).
\* Each of the four deletes per victim is check=False: it removes the member
\* or fails and is ignored.  del[k] are the victims whose member k went.
gc_block(p) ==
    IF deployed = NoId
    THEN die(p, 1) /\ UNCHANGED <<storeVars, lockHolder, issued>>
    ELSE \E del \in [KindSet -> SUBSET gc_victims(members["snapshot"], deployed)] :
           LET rootfs == members["snapshot"] \ del["snapshot"]
               sids   == SortedSeq(gc_victims(members["snapshot"], deployed))
               runs   == [j \in 1..(Len(sids) * Len(Kinds)) |->
                            LET sid == sids[((j - 1) \div Len(Kinds)) + 1]
                                k   == Kinds[((j - 1) % Len(Kinds)) + 1]
                            IN run("delete", k, sid, sid \in del[k])]
           IN /\ members' = [k \in KindSet |-> members[k] \ del[k]]
              /\ uuid' = [i \in rootfs |-> uuid[i]]
              /\ parent_uuid' = [i \in rootfs |-> parent_uuid[i]]
              /\ issued' = [issued EXCEPT ![p] = @ \o runs]
              /\ finish(p)
              /\ UNCHANGED <<deployed, malformed, lockHolder>>

\* `with lock():` of clone (156), clone_tree (168), deploy (203),
\* base_update (322) and gc (341).  Were the block entered, lock() would hold
\* flock(LOCK_EX) on its own open of LOCK_FILE from before the block to
\* fd.close() after it.  As lock_enters says, the statement raises TypeError
\* instead; main-cli.py 56-57 turns it into exit status 1.
with_lock(p) ==
    /\ pc[p] = "with_lock"
    /\ IF lock_enters
       THEN /\ lockHolder = {}
            /\ CASE cmd[p] \in {"clone", "branch"} -> clone_block(p)
                 [] cmd[p] = "clone-tree"  -> clone_tree_block(p)
                 [] cmd[p] = "deploy"      -> deploy_block(p)
                 [] cmd[p] = "base-update" -> base_update_block(p)
                 [] cmd[p] = "gc"          -> gc_block(p)
       ELSE /\ die(p, 1)
            /\ UNCHANGED <<storeVars, lockHolder, issued>>
    /\ UNCHANGED <<cmd, arg, dst, new_id, runVars, chrVars, frames>>

MutatorNext(p) ==
    \/ start_mutator(p)
    \/ next_snapshot_id_flock(p)
    \/ next_snapshot_id_return(p)
    \/ with_lock(p)

Next == \E p \in Procs : MutatorNext(p)

Spec == Init /\ [][Next]_vars

\* ---------------------------------------------------------------- tree-run
\* A walk that takes the next ID from the front of the list.
RECURSIVE walk_fifo(_, _)
walk_fifo(queue, visited) ==
    IF queue = <<>> THEN visited
    ELSE walk_fifo(Tail(queue) \o get_children(Head(queue)),
                   Append(visited, Head(queue)))

\* actions._walk_tree 271-278: explicit stack, pop from the end, append the
\* children of the popped ID in get_children's order.
RECURSIVE walk_loop(_, _)
walk_loop(stack, visited) ==
    IF stack = <<>> THEN visited
    ELSE LET cur == stack[Len(stack)]
         IN walk_loop(SubSeq(stack, 1, Len(stack) - 1) \o get_children(cur),
                      Append(visited, cur))

walk_tree(root_id) == walk_loop(<<root_id>>, <<>>)

\* What utils.run(["chroot", root, *cmd]) (262, check=True) can do:
\*   "ok"      the command exits 0;
\*   "nonzero" it exits non-zero: CalledProcessError, caught at 68, and
\*             utils.die (71) raises SystemExit(1);
\*   "oserror" subprocess.run itself raises OSError (the chroot program cannot
\*             be started); utils.run does not catch it.
RunOutcomes == {"ok", "nonzero", "oserror"}

\* No other process has left "idle": tree-run and chroot sessions share no
\* variable with each other, so one session at a time is explored.
alone(p) == \A q \in Procs \ {p} : pc[q] = "idle"

\* actions.tree_run 249-257.  _walk_tree starts with get_children(root_id),
\* whose get_subvolume raises for a snapshot that does not exist.
start_tree_run(p) ==
    /\ pc[p] = "idle"
    /\ alone(p)
    /\ \E root_id \in Ids, ff \in BOOLEAN :
          /\ cmd' = [cmd EXCEPT ![p] = "tree-run"]
          /\ arg' = [arg EXCEPT ![p] = root_id]
          /\ fail_fast' = [fail_fast EXCEPT ![p] = ff]
          /\ IF root_id \in members["snapshot"]
             THEN /\ ids' = [ids EXCEPT ![p] = walk_tree(root_id)]
                  /\ idx' = [idx EXCEPT ![p] = 1]
                  /\ pc' = [pc EXCEPT ![p] = "tree_run_loop"]
                  /\ UNCHANGED exitCode
             ELSE /\ die(p, 1)
                  /\ UNCHANGED <<ids, idx>>
    /\ UNCHANGED <<storeVars, lockHolder, dst, new_id, invoked, failedIds, chrVars, frames, issued>>

\* actions.tree_run 258-267, one iteration of the for loop.  SystemExit is
\* not an Exception: `except Exception` (263) does not catch what utils.die
\* raises inside utils.run, and neither does main-cli.py 56.
tree_run_invoke(p) ==
    /\ pc[p] = "tree_run_loop"
    /\ idx[p] <= Len(ids[p])
    /\ LET sid == ids[p][idx[p]]
       IN \E out \in RunOutcomes :
            /\ invoked' = [invoked EXCEPT ![p] = Append(@, sid)]
            /\ failedIds' = [failedIds EXCEPT ![p] =
                                IF out = "ok" THEN @ ELSE @ \cup {sid}]
            /\ CASE out = "ok" ->
                      idx' = [idx EXCEPT ![p] = @ + 1] /\ UNCHANGED <<pc, exitCode>>
                 [] out = "nonzero" ->
                      die(p, 1) /\ UNCHANGED idx
                 [] out = "oserror" ->
                      IF fail_fast[p]
                      THEN die(p, 1) /\ UNCHANGED idx
                      ELSE idx' = [idx EXCEPT ![p] = @ + 1] /\ UNCHANGED <<pc, exitCode>>
    /\ UNCHANGED <<storeVars, lockHolder, cmd, arg, dst, new_id, fail_fast, ids, chrVars, frames, issued>>

\* actions.tree_run: the for loop is exhausted, the function returns and the
\* process ends with status 0.
tree_run_return(p) ==
    /\ pc[p] = "tree_run_loop"
    /\ idx[p] > Len(ids[p])
    /\ finish(p)
    /\ UNCHANGED <<storeVars, lockHolder, cmd, arg, dst, new_id, runVars, chrVars, frames, issued>>

TreeRunNext(p) ==
    \/ start_tree_run(p)
    \/ tree_run_invoke(p)
    \/ tree_run_return(p)

InitTreeRun == InitStoreMalformed /\ InitProcs

SpecTreeRun == InitTreeRun /\ [][\E p \in Procs : TreeRunNext(p)]_vars

\* ------------------------------------------------------------------ chroot
\* actions.chroot 215-220: the bind mounts, in order.  The "/proc" entry has
\* four fields, so the len(m) == 5 test (222) is false for it as well.
MountTargets == <<"var", "etc", "proc", "dev">>

\* actions.chroot 232-237: reversed(mounts), then {root}/sys.
UmountTargets == <<"dev", "proc", "etc", "var", "sys">>

\* actions.chroot 209-213.
start_chroot(p) ==
    /\ pc[p] = "idle"
    /\ alone(p)
    /\ \E snap_id \in Ids :
          /\ cmd' = [cmd EXCEPT ![p] = "chroot"]
          /\ arg' = [arg EXCEPT ![p] = snap_id]
    /\ pc' = [pc EXCEPT ![p] = "chroot_mount"]
    /\ mstep' = [mstep EXCEPT ![p] = 1]
    /\ UNCHANGED <<storeVars, lockHolder, dst, new_id, exitCode, runVars,
                   opened, raised, mnt, umounts, frames, issued>>

\* actions.chroot 221-226, one utils.run(["mount", ...]) (check=True): the
\* four bind mounts, then --make-rslave on {root}/sys, which mounts nothing.
\* A failing mount ends the process through utils.die; so does an interrupt
\* (main-cli.py 54-55).  Both happen before the try block is entered.
chroot_mount(p) ==
    /\ pc[p] = "chroot_mount"
    /\ \E out \in {"ok", "fails", "interrupt"} :
         /\ out = "ok" => arg[p] \in members["snapshot"]
         /\ CASE out = "ok" /\ mstep[p] <= Len(MountTargets) ->
                   /\ mnt' = [mnt EXCEPT ![p] = @ \cup {MountTargets[mstep[p]]}]
                   /\ mstep' = [mstep EXCEPT ![p] = @ + 1]
                   /\ UNCHANGED <<pc, exitCode, opened>>
              [] out = "ok" /\ mstep[p] > Len(MountTargets) ->
                   /\ opened' = [opened EXCEPT ![p] = TRUE]
                   /\ pc' = [pc EXCEPT ![p] = "chroot_try"]
                   /\ UNCHANGED <<mnt, mstep, exitCode>>
              [] out = "fails" ->
                   die(p, 1) /\ UNCHANGED <<mnt, mstep, opened>>
              [] out = "interrupt" ->
                   die(p, 130) /\ UNCHANGED <<mnt, mstep, opened>>
    /\ UNCHANGED <<storeVars, lockHolder, cmd, arg, dst, new_id, runVars,
                   raised, umounts, frames, issued>>

\* actions.chroot 227-229, the try block: os.chdir(root), then
\* os.execvp("chroot", ...).  A successful execvp replaces the process image:
\* the Python interpreter, and with it the finally block, is gone, and the
\* process now is the chroot program running /bin/bash.  The finally block
\* runs only when chdir or execvp raises OSError or the process is
\* interrupted before the exec.
chroot_try(p) ==
    /\ pc[p] = "chroot_try"
    /\ \E out \in {"exec", "OSError", "KeyboardInterrupt"} :
         IF out = "exec"
         THEN /\ pc' = [pc EXCEPT ![p] = "shell"]
              /\ UNCHANGED <<raised, mstep>>
         ELSE /\ pc' = [pc EXCEPT ![p] = "chroot_finally"]
              /\ raised' = [raised EXCEPT ![p] = out]
              /\ mstep' = [mstep EXCEPT ![p] = 1]
    /\ UNCHANGED <<storeVars, lockHolder, cmd, arg, dst, new_id, exitCode, runVars,
                   opened, mnt, umounts, frames, issued>>

\* The shell that replaced the process ends: normally (0) or not (1).
shell_exit(p) ==
    /\ pc[p] = "shell"
    /\ \E code \in {0, 1} : die(p, code)
    /\ UNCHANGED <<storeVars, lockHolder, cmd, arg, dst, new_id, runVars, chrVars, frames, issued>>

\* actions.chroot 230-237, one utils.run(["umount", ...], check=False) of the
\* finally block: the command unmounts its target or fails and is ignored.
\* After the last one the exception in flight goes on to main-cli.py 54-57.
chroot_umount(p) ==
    /\ pc[p] = "chroot_finally"
    /\ LET t == UmountTargets[mstep[p]]
       IN /\ umounts' = [umounts EXCEPT ![p] = Append(@, t)]
          /\ \E ok \in BOOLEAN :
               mnt' = [mnt EXCEPT ![p] = IF ok THEN @ \ {t} ELSE @]
    /\ IF mstep[p] < Len(UmountTargets)
       THEN /\ mstep' = [mstep EXCEPT ![p] = @ + 1]
            /\ UNCHANGED <<pc, exitCode>>
       ELSE /\ die(p, IF raised[p] = "KeyboardInterrupt" THEN 130 ELSE 1)
            /\ UNCHANGED mstep
    /\ UNCHANGED <<storeVars, lockHolder, cmd, arg, dst, new_id, runVars,
                   opened, raised, frames, issued>>

ChrootNext(p) ==
    \/ start_chroot(p)
    \/ chroot_mount(p)
    \/ chroot_try(p)
    \/ shell_exit(p)
    \/ chroot_umount(p)

SpecChroot == Init /\ [][\E p \in Procs : ChrootNext(p)]_vars

\* -------------------------------------------------- actions._clone_recursive
\* The recursion of clone_tree, entered directly: actions._clone_recursive is
\* a static method and takes no lock of its own (clone_tree's `with lock():`
\* is the statement that keeps the command line from reaching it).

\* Call depth at which the interpreter raises RecursionError.
MaxDepth == 3

\* A call of _clone_recursive(snap_id, parent_new): its locals.
Frame(snap_id) == [snap_id |-> snap_id, new_id |-> NoId, children |-> <<>>, i |-> 0]

Top(p) == frames[p][Len(frames[p])]

\* actions._clone_recursive(snap_id, None), called on an existing snapshot.
start_clone_recursive(p) ==
    /\ pc[p] = "idle"
    /\ alone(p)
    /\ \E snap_id \in Ids :
          /\ cmd' = [cmd EXCEPT ![p] = "_clone_recursive"]
          /\ arg' = [arg EXCEPT ![p] = snap_id]
          /\ frames' = [frames EXCEPT ![p] = <<Frame(snap_id)>>]
    /\ pc' = [pc EXCEPT ![p] = "cr_nsi_open"]
    /\ UNCHANGED <<storeVars, lockHolder, dst, new_id, exitCode, runVars, chrVars, issued>>

\* _clone_recursive 175-178: the four btrfs_snapshot calls of one node; the
\* first that dies ends the process.
clone_recursive_snapshot(p) ==
    /\ pc[p] = "cr_snapshot"
    /\ \E n \in clone_outcomes(members, Top(p).snap_id, Top(p).new_id) :
          /\ snapshot_members(Top(p).snap_id, Top(p).new_id, n)
          /\ issued' = [issued EXCEPT ![p] =
                            @ \o btrfs_snapshot_runs(members, Top(p).new_id, n)]
          /\ IF n = Len(Kinds)
             THEN pc' = [pc EXCEPT ![p] = "cr_children"] /\ UNCHANGED exitCode
             ELSE die(p, 1)
    /\ UNCHANGED <<deployed, malformed, lockHolder, cmd, arg, dst, new_id, runVars,
                   chrVars, frames>>

\* _clone_recursive 179: utils.get_children(snap_id) is evaluated here, after
\* the snapshots of 175-178, and the for loop iterates over its result.
clone_recursive_children(p) ==
    /\ pc[p] = "cr_children"
    /\ frames' = [frames EXCEPT ![p][Len(frames[p])].children =
                                     get_children(Top(p).snap_id)]
    /\ pc' = [pc EXCEPT ![p] = "cr_loop"]
    /\ UNCHANGED <<storeVars, lockHolder, cmd, arg, dst, new_id, exitCode,
                   runVars, chrVars, issued>>

\* _clone_recursive 179-181, one step of the for loop.  The next child is
\* cloned by a recursive call; parent_new (new_id of the caller) is passed
\* and not used.  Beyond MaxDepth the call raises RecursionError (main-cli.py
\* 56-57).  When the loop is exhausted the call returns new_id (181) to its
\* caller, the outermost call to whoever called it.
clone_recursive_loop(p) ==
    /\ pc[p] = "cr_loop"
    /\ IF Top(p).i < Len(Top(p).children)
       THEN IF Len(frames[p]) >= MaxDepth
            THEN die(p, 1) /\ UNCHANGED <<frames, dst>>
            ELSE /\ frames' = [frames EXCEPT ![p] =
                        Append([@ EXCEPT ![Len(@)].i = @ + 1],
                               Frame(Top(p).children[Top(p).i + 1]))]
                 /\ pc' = [pc EXCEPT ![p] = "cr_nsi_open"]
                 /\ UNCHANGED <<exitCode, dst>>
       ELSE IF Len(frames[p]) = 1
            THEN /\ finish(p)
                 /\ dst' = [dst EXCEPT ![p] = Top(p).new_id]
                 /\ UNCHANGED frames
            ELSE /\ frames' = [frames EXCEPT ![p] = SubSeq(@, 1, Len(@) - 1)]
                 /\ UNCHANGED <<pc, exitCode, dst>>
    /\ UNCHANGED <<storeVars, lockHolder, cmd, arg, new_id, runVars, chrVars, issued>>

CloneRecursiveNext(p) ==
    \/ start_clone_recursive(p)
    \/ next_snapshot_id_flock(p)
    \/ next_snapshot_id_return(p)
    \/ clone_recursive_snapshot(p)
    \/ clone_recursive_children(p)
    \/ clone_recursive_loop(p)

InitCloneRecursive == InitStoreStray /\ InitProcs

SpecCloneRecursive == InitCloneRecursive /\ [][\E p \in Procs : CloneRecursiveNext(p)]_vars

\* A call of _clone_recursive on a complete bundle never returns: the clone it
\* makes of snap_id is among get_children(snap_id) at line 179, so each call
\* recurses on the bundle it has just created, until the interpreter's
\* recursion limit ends the process.
CloneRecursiveNeverReturns ==
    \A p \in Procs : Done(p, "_clone_recursive") => exitCode[p] = 1

\* The scheduler runs every process that can take a step; a flock that stays
\* free is granted.
FairSpec == Spec /\ \A p \in Procs : WF_vars(MutatorNext(p))

\* ================================================================= claims

\* IDs of the rootfs namespace that the initial store did not hold.
NewIds == Subvols \ Ids

\* C1: clone(src) on a store where bundle src is complete ends successfully
\* with dst = max(existing rootfs IDs) + 1 and all four members of dst
\* present.
C1_CloneCompletes ==
    \A p \in Procs :
        (Done(p, "clone") /\ BundleComplete(members, arg[p]))
            => /\ exitCode[p] = 0
               /\ dst[p] \in Subvols
               /\ BundleComplete(members, dst[p])

\* C2: the IDs the allocator returns to different clone callers are pairwise
\* distinct, whatever the interleaving (here: callers cloning a complete
\* bundle).
C2_AllocatedIdsDistinct ==
    \A p, q \in Procs :
        (/\ p # q
         /\ dst[p] # NoId /\ BundleComplete(members, arg[p])
         /\ dst[q] # NoId /\ BundleComplete(members, arg[q]))
            => dst[p] # dst[q]

C4_RequestLeadsToLock ==
    \A p \in Procs : (pc[p] = "with_lock") ~> (p \in lockHolder)

\* The nodes of the subtree of root, as the lineage resolver sees them.
Subtree(root) == Range(walk_tree(root))

\* C5: clone_tree(R) ends with a fresh tree isomorphic to R's subtree: one new
\* node per original node, the clone of each child a lineage child of the
\* clone of its parent.
C5_CloneTreeIsomorphic ==
    \A p \in Procs :
        (Done(p, "clone-tree") /\ arg[p] \in Subvols /\ BundleComplete(members, arg[p]))
            => LET orig == Subtree(arg[p]) \cap Ids
               IN \E f \in [orig -> NewIds] :
                     /\ \A a, b \in orig : a # b => f[a] # f[b]
                     /\ \A a, b \in orig :
                           parent_uuid[b] = uuid[a] => parent_uuid[f[b]] = uuid[f[a]]

\* C6: clone_tree(R) creates exactly as many bundles as the original subtree
\* of R has nodes.
C6_CloneTreeCount ==
    \A p \in Procs :
        (Done(p, "clone-tree") /\ arg[p] \in Subvols /\ BundleComplete(members, arg[p]))
            => Cardinality(NewIds) = Cardinality(Subtree(arg[p]) \cap Ids)

\* s is an initial segment of t.
IsPrefix(s, t) == Len(s) <= Len(t) /\ SubSeq(t, 1, Len(s)) = s

\* C7: when the command fails on a visited ID, fail_fast=true invokes no
\* later ID, and fail_fast=false still invokes the command on every
\* remaining ID of walk(root).
C7_FailFastOrContinue ==
    \A p \in Procs :
        (Done(p, "tree-run") /\ arg[p] \in Subvols)
            => /\ IsPrefix(invoked[p], ids[p])
               /\ (fail_fast[p] /\ failedIds[p] # {})
                     => failedIds[p] = {invoked[p][Len(invoked[p])]}
               /\ ~fail_fast[p] => invoked[p] = ids[p]

\* C8: the exit status of tree_run is failure if and only if the command
\* failed on at least one visited ID.
C8_ExitStatusIffFailed ==
    \A p \in Procs :
        (Done(p, "tree-run") /\ arg[p] \in Subvols)
            => (exitCode[p] # 0 <=> failedIds[p] # {})

\* C9: after collect() with DeployedID = d, the IDs left are exactly the
\* earlier ones that are 0 or lie in d-2..d+2; every other ID has lost all
\* four members.
C9_GcRetention ==
    \A p \in Procs :
        (Done(p, "gc") /\ deployed # NoId)
            => \A k \in KindSet :
                  members[k] \subseteq ({0} \cup ((deployed - 2)..(deployed + 2)))

\* C10: once a chroot session is open, every exit path runs the unmount
\* sequence over the session's mounts.
C10_TeardownOnEveryExit ==
    \A p \in Procs :
        (Done(p, "chroot") /\ opened[p])
            => \A i \in 1..Len(UmountTargets) : UmountTargets[i] \in Range(umounts[p])

Reverse(s) == [i \in 1..Len(s) |-> s[Len(s) + 1 - i]]

\* C11: a closing session issues its unmounts in the strict reverse of the
\* open sequence /var, /etc, /proc, /dev, /sys: /sys first, then /dev, /proc,
\* /etc, /var.
C11_UmountReverseOrder ==
    \A p \in Procs :
        IsPrefix(umounts[p], Reverse(<<"var", "etc", "proc", "dev", "sys">>))

NewRuns(p) == SubSeq(issued'[p], Len(issued[p]) + 1, Len(issued'[p]))

\* C13: when the destination of a member clone exists already, the bundle
\* clone fails, no snapshot command is run on that path, and the member is
\* still there afterwards.
C13_CloneRefusal ==
    [][\A p \in Procs :
          (pc[p] = "cr_snapshot" /\ pc'[p] # "cr_snapshot")
              => \A k \in KindSet :
                    Top(p).new_id \in members[k]
                        => /\ pc'[p] = "done" /\ exitCode'[p] = 1
                           /\ Top(p).new_id \in members'[k]
                           /\ \A i \in 1..Len(NewRuns(p)) :
                                 ~(/\ NewRuns(p)[i].kind = k
                                   /\ NewRuns(p)[i].id = Top(p).new_id)]_vars

\* A bundle clone has been refused: the process ended on a destination var
\* member that was there before, having cloned the rootfs member only.
C13_Witness ==
    \E p \in Procs :
        /\ Done(p, "_clone_recursive") /\ exitCode[p] = 1
        /\ Top(p).new_id \in members["var"]
        /\ issued[p] = <<run("snapshot", "snapshot", Top(p).new_id, TRUE)>>

\* C14: right after a bundle clone A -> B has succeeded, B is a lineage child
\* of A and has no children; a snapshot without children gets its first child
\* only in a step that clones from it.
C14_Lineage ==
    [][\A p \in Procs :
          /\ (pc[p] = "cr_snapshot" /\ pc'[p] = "cr_children")
                => /\ Top(p).new_id \in get_children_set(Top(p).snap_id)'
                   /\ get_children_set(Top(p).new_id)' = {}
          /\ \A b \in Subvols :
                (get_children_set(b) = {} /\ b \in Subvols' /\ get_children_set(b)' # {})
                    => \E q \in Procs :
                          /\ pc[q] = "cr_snapshot" /\ pc'[q] # "cr_snapshot"
                          /\ Top(q).snap_id = b]_vars

\* A bundle clone has just succeeded: all four members of new_id exist and
\* the caller is about to ask for the children of its source.
C14_Witness ==
    \E p \in Procs :
        /\ pc[p] = "cr_children"
        /\ BundleComplete(members, Top(p).new_id)
        /\ Top(p).new_id \in get_children_set(Top(p).snap_id)
        /\ get_children_set(Top(p).new_id) = {}

\* The lineage parent of snapshot c: the snapshot whose uuid is c's
\* parent_uuid; c and its chain of lineage parents.
HasParent(c) == \E a \in Subvols : uuid[a] = parent_uuid[c]
ParentOf(c) == CHOOSE a \in Subvols : uuid[a] = parent_uuid[c]

RECURSIVE Ancestors(_)
Ancestors(c) == IF HasParent(c) THEN {c} \cup Ancestors(ParentOf(c)) ELSE {c}

\* The IDs reachable from root through children_of.
Reach(root) == {c \in Subvols : root \in Ancestors(c)}

\* C15: walk(root) is a depth-first pre-order sequence of the lineage tree:
\* root first, every ID reachable from root exactly once and nothing else,
\* every node after its parent and directly followed by the rest of its own
\* subtree; a subvolume whose name holds no ID does not stop the walk and adds
\* nothing to it.
C15_WalkPreOrder ==
    \A p \in Procs :
        (cmd[p] = "tree-run" /\ arg[p] \in Subvols)
            => LET w == ids[p]
               IN /\ w[1] = arg[p]
                  /\ Range(w) = Reach(arg[p])
                  /\ \A i, j \in 1..Len(w) : i # j => w[i] # w[j]
                  /\ \A j \in 2..Len(w) : \E i \in 1..(j - 1) : w[i] = ParentOf(w[j])
                  /\ \A i, j \in 1..Len(w) :
                        i < j => (w[i] \in Ancestors(w[j])
                                    <=> j < i + Cardinality(Reach(w[i])))

\* A walk has been made of a tree with a node below a child of the root and
\* with a subvolume of unparsable name among the children of a walked node.
C15_Witness ==
    \E p \in Procs :
        /\ pc[p] = "tree_run_loop"
        /\ \E c \in Range(ids[p]) : HasParent(c) /\ ParentOf(c) # arg[p] /\ c # arg[p]
        /\ \E a \in Range(ids[p]) : uuid[a] \in malformed

\* C16: the ID the allocator returns to a clone is strictly greater than every
\* ID it returned to a clone that has ended before (both clones of a complete
\* bundle).
C16_AllocationIncreases ==
    [][\A q \in Procs :
          (/\ pc[q] = "clone_nsi_locked" /\ pc'[q] # pc[q] /\ cmd[q] = "clone"
           /\ BundleComplete(members, arg[q]))
              => \A p \in Procs \ {q} :
                    (Done(p, "clone") /\ BundleComplete(members, arg[p]))
                        => dst'[q] > dst[p]]_vars

C19_GcFanOut ==
    [][\A p \in Procs :
          LET window == (deployed - 2)..(deployed + 2)
              out    == {sid \in Subvols \ {0} : sid \notin window}
          IN (/\ pc[p] = "with_lock" /\ cmd[p] = "gc" /\ pc'[p] = "done"
              /\ deployed # NoId /\ out # {})
                => /\ exitCode'[p] = 0
                   /\ \A sid \in out : \A k \in KindSet :
                         \E i \in 1..Len(issued'[p]) :
                            /\ issued'[p][i].cmd = "delete"
                            /\ issued'[p][i].kind = k
                            /\ issued'[p][i].id = sid]_vars

\* C21: a mount that fails while a session is being opened on an existing
\* snapshot does not end it: unless interrupted, the session goes on through
\* the remaining mounts and is opened.
C21_OpenBestEffort ==
    \A p \in Procs :
        (Done(p, "chroot") /\ arg[p] \in Subvols /\ exitCode[p] # 130)
            => opened[p]

====
